---- MODULE Spec2Model ----
(***************************************************************************)
(* A model of the DDQN agent of DRL-SSxApp/DDQN_agentemu.py: the replay    *)
(* buffer (DDQN_ReplayBuffer), the agent (DDQN: step, act, learn,          *)
(* soft_update), the two Q-networks and the training driver run_ddqn; and  *)
(* of the DDQN branches of train and inference of model_inference.py.      *)
(*                                                                         *)
(* Numbers.  The program computes in floating point; the model computes in *)
(* exact rationals <<numerator, denominator>> kept in lowest terms, so     *)
(* rounding, overflow to inf and NaN are outside the model.                *)
(*                                                                         *)
(* Networks.  A DDQN_QNetwork is modelled by the action values it gives on *)
(* the finite set StateVectors of state vectors the model uses: its parameters   *)
(* are one number per (state vector, action), and forward reads them out.  *)
(* The optimiser's arithmetic (Adam on the MSE loss) is not computed: the  *)
(* gradient step replaces the local parameters by any element of Params.   *)
(***************************************************************************)
EXTENDS Integers, Sequences, FiniteSets, TLC

VARIABLES
    buffer_size,      \* DDQN_ReplayBuffer: maxlen of self.memory
    batch_size,       \* DDQN_ReplayBuffer.batch_size
    memory,           \* DDQN_ReplayBuffer.memory, oldest record first
    t_step,           \* DDQN.t_step
    qnetwork_local,   \* parameters of DDQN.qnetwork_local
    qnetwork_target,  \* parameters of DDQN.qnetwork_target
    rng,              \* position of the `random` module's generator (mod RngPeriod)
    added,            \* history: every transition ever passed to add, in order
    call,             \* the last call made by the caller and what it returned
    training,         \* qnetwork_local.training, the mode flag of nn.Module
    files,            \* the checkpoint files: path -> absent or a saved state_dict
    run               \* the local variables of a run_ddqn call and its position

vars == <<buffer_size, batch_size, memory, t_step, qnetwork_local,
          qnetwork_target, rng, added, call, training, files, run>>

\* ------------------------------------------------------------------------
(* Bounds of the model *)

\* adds per behaviour of the replay-buffer specification
MaxAdds == 5
\* largest buffer_size / batch_size given to DDQN_ReplayBuffer in SpecBuffer
MaxCap == 3
MaxBatch == 3
\* step calls per behaviour of the agent specification
MaxSteps == 6
\* the source sets BATCH_SIZE = 32 and UPDATE_EVERY = 4; the model scales
\* both, keeping BATCH_SIZE a multiple of UPDATE_EVERY and larger than it
BATCH_SIZE == 4
UPDATE_EVERY == 2
\* period after which the generator's position repeats
RngPeriod == 2
\* largest denominator a target parameter may have for soft_update to be
\* called again in SpecSoft
MaxDen == 4

\* the checkpoint paths of the program: the one train() gives run_ddqn and
\* the one inference() loads
TrainPath == "checkpoint.pth"
InferencePath == "pth/DDQNcheckpoint.pth"
Paths == {TrainPath, InferencePath}

\* no checkpoint file exists; no run_ddqn call is in progress
Absent == [exists |-> FALSE]
Saved(sd) == [exists |-> TRUE, state_dict |-> sd]
NoFiles == [p \in Paths |-> Absent]
NoRun == [pc |-> "idle"]

\* the runs of the training driver: the episodes and the steps per episode of
\* a short run, the steps of a short run in all, the episodes of a long run
MaxEpisodes == 2
MaxT == 2
MaxRunSteps == 2
LongRun == 800

(* Program constants *)
BUFFER_SIZE == 100000
state_size == 3
action_size == 4
TAU == <<1, 2000>>
GAMMA == <<99, 100>>
\* run_ddqn: the cadence of the decay of eps, in episodes (line 417), and
\* the length of total_prbs (line 353)
DECAY_EVERY == 400
total_prbs_len == 3

\* ------------------------------------------------------------------------
(* Exact rational arithmetic standing for the program's float arithmetic *)

RECURSIVE GCD(_, _)
GCD(a, b) == IF b = 0 THEN a ELSE GCD(b, a % b)

Abs(x) == IF x < 0 THEN -x ELSE x

Rat(n, d) == LET g == GCD(Abs(n), d) IN <<n \div g, d \div g>>

RInt(n) == <<n, 1>>

RAdd(x, y) == Rat(x[1] * y[2] + y[1] * x[2], x[2] * y[2])

RSub(x, y) == Rat(x[1] * y[2] - y[1] * x[2], x[2] * y[2])

RMul(x, y) == Rat(x[1] * y[1], x[2] * y[2])

RLt(x, y) == (x[1] * y[2]) < (y[1] * x[2])

\* ------------------------------------------------------------------------
(* State vectors, actions, transitions *)

Actions == 0 .. (action_size - 1)

\* two state vectors of the agent-wide dimension
S0 == [i \in 1 .. state_size |-> 0]
S1 == [i \in 1 .. state_size |-> IF i = 1 THEN 1 ELSE 0]
StateVectors == {S0, S1}

\* self.experience(state, action, reward, next_state, done)
Experience(s, a, r, ns, d) ==
    [state |-> s, action |-> a, reward |-> r, next_state |-> ns, done |-> d]

T1 == Experience(S0, 1, 10, S1, TRUE)
T2 == Experience(S1, 0, -1, S0, FALSE)
T3 == Experience(S1, 2, 3, S1, FALSE)

\* the transitions the caller passes to add / step
Transitions == {T1, T2}

\* ------------------------------------------------------------------------
(* DDQN_ReplayBuffer *)

\* append on a full deque that refuses the new item instead of dropping the
\* oldest one
add_keep_oldest(mem, cap, e) ==
    IF Len(mem) >= cap THEN mem ELSE Append(mem, e)

\* DDQN_ReplayBuffer.add: deque(maxlen = cap).append(e), where a full deque
\* drops its oldest item
add(mem, cap, e) ==
    LET m == Append(mem, e)
    IN  IF Len(m) > cap THEN Tail(m) ELSE m

\* the lists of k distinct positions of a population of n items
Positions(n, k) ==
    {q \in [1 .. k -> 1 .. n] : \A i, j \in 1 .. k : i # j => q[i] # q[j]}

\* np.vstack([e.done ...]).astype(np.uint8).float(): True is 1, False is 0
DoneValue(d) == IF d THEN 1 ELSE 0

\* the five tensors built from the list of sampled experiences
Tensors(experiences) ==
    LET rows == 1 .. Len(experiences)
    IN  [states      |-> [i \in rows |-> experiences[i].state],
         actions     |-> [i \in rows |-> experiences[i].action],
         rewards     |-> [i \in rows |-> RInt(experiences[i].reward)],
         next_states |-> [i \in rows |-> experiences[i].next_state],
         dones       |-> [i \in rows |-> DoneValue(experiences[i].done)]]

\* sample with the guard of random.sample left out: a request larger than the
\* population returns the whole population
sample_clamped(mem, k) ==
    LET n == IF k > Len(mem) THEN Len(mem) ELSE k
    IN  {[raised |-> "none",
          idx    |-> q,
          ret    |-> Tensors([i \in 1 .. n |-> mem[q[i]]])] :
           q \in Positions(Len(mem), n)}

\* sample drawing with replacement (random.choices), so that one stored
\* record may fill several rows of the batch
sample_with_replacement(mem, k) ==
    IF k > Len(mem)
    THEN {[raised |-> "ValueError"]}
    ELSE {[raised |-> "none",
           idx    |-> q,
           ret    |-> Tensors([i \in 1 .. k |-> mem[q[i]]])] :
            q \in [1 .. k -> 1 .. Len(mem)]}

\* np.vstack raises ValueError when the state vectors, or the next_state
\* vectors, of the sampled experiences are not all of one length
vstack_raises(experiences) ==
    \E i \in 1 .. Len(experiences) :
        \/ Len(experiences[i].state) # Len(experiences[1].state)
        \/ Len(experiences[i].next_state) # Len(experiences[1].next_state)

\* DDQN_ReplayBuffer.sample: every outcome random.sample can produce.
\* random.sample raises ValueError when k exceeds the population; np.vstack
\* may raise on what was drawn.
sample(mem, k) ==
    IF k > Len(mem)
    THEN {[raised |-> "ValueError"]}
    ELSE {LET experiences == [i \in 1 .. k |-> mem[q[i]]]
          IN  IF vstack_raises(experiences)
              THEN [raised |-> "ValueError", idx |-> q]
              ELSE [raised |-> "none",
                    idx    |-> q,
                    ret    |-> Tensors(experiences)] :
            q \in Positions(Len(mem), k)}

\* the values random.sample takes from the generator: none when it raises,
\* one per selected position otherwise
RandomDraws(out, k) == IF "idx" \in DOMAIN out THEN k ELSE 0

\* DDQN_ReplayBuffer.__init__ followed by any calls of add and sample
InitBuffer ==
    /\ buffer_size \in 1 .. MaxCap
    /\ batch_size \in 1 .. MaxBatch
    /\ memory = <<>>
    /\ t_step = 0
    /\ qnetwork_local = <<>>
    /\ qnetwork_target = <<>>
    /\ rng \in 0 .. (RngPeriod - 1)
    /\ added = <<>>
    /\ call = [op |-> "init"]
    /\ training = TRUE
    /\ files = NoFiles
    /\ run = NoRun

Add(e) ==
    /\ Len(added) < MaxAdds
    /\ memory' = add(memory, buffer_size, e)
    /\ added' = Append(added, e)
    /\ call' = [op |-> "add"]
    /\ UNCHANGED <<buffer_size, batch_size, t_step, qnetwork_local,
                   qnetwork_target, rng>>
    /\ UNCHANGED <<training, files, run>>

Sample ==
    /\ \E out \in sample(memory, batch_size) :
          /\ call' = [op |-> "sample", size |-> Len(memory), out |-> out]
          /\ rng' = (rng + RandomDraws(out, batch_size)) % RngPeriod
    /\ UNCHANGED <<buffer_size, batch_size, memory, t_step, qnetwork_local,
                   qnetwork_target, added>>
    /\ UNCHANGED <<training, files, run>>

NextBuffer == (\E e \in Transitions : Add(e)) \/ Sample

SpecBuffer == InitBuffer /\ [][NextBuffer]_vars

\* transitions whose state, or next_state, is one entry short
SShort == [i \in 1 .. (state_size - 1) |-> 0]
TBadState == Experience(SShort, 1, 10, S1, FALSE)
TBadNext == Experience(S1, 0, -1, SShort, FALSE)

\* a buffer whose caller passes well-formed and malformed transitions
NextShape == (\E e \in {T1, TBadState, TBadNext} : Add(e)) \/ Sample

SpecShape == InitBuffer /\ [][NextShape]_vars

\* ------------------------------------------------------------------------
(* DDQN_QNetwork *)

Row(a, b, c, d) == [x \in Actions |-> RInt(<<a, b, c, d>>[x + 1])]

\* the action values a network may give for one state vector
Rows == {Row(0, 0, 0, 0), Row(0, 1, 0, 1), Row(1, 0, 1, 0)}

\* the parameter values a freshly built or freshly optimised network may have
Params == [StateVectors -> Rows]

\* DDQN_QNetwork.forward: the action values for one state vector
forward(params, s) == params[s]

\* np.argmax / tensor.max(1)[1]: the first index holding the largest value
argmax(values) ==
    CHOOSE a \in Actions :
        /\ \A b \in Actions : ~RLt(values[a], values[b])
        /\ \A b \in Actions : b < a => RLt(values[b], values[a])

\* ------------------------------------------------------------------------
(* DDQN.learn and DDQN.soft_update *)

\* Q_expected = qnetwork_local(states).gather(1, actions)
Q_expected(local, experiences) ==
    [i \in DOMAIN experiences.states |->
        forward(local, experiences.states[i])[experiences.actions[i]]]

\* the next action chosen by the target network itself (single-network DQN)
next_action_from_target(local, target, experiences) ==
    [i \in DOMAIN experiences.next_states |->
        argmax(forward(target, experiences.next_states[i]))]

\* next_action = qnetwork_local(next_states).max(1)[1].unsqueeze(1)
next_action(local, target, experiences) ==
    [i \in DOMAIN experiences.next_states |->
        argmax(forward(local, experiences.next_states[i]))]

\* Q_targets_next = qnetwork_target(next_states).gather(1, next_action)
Q_targets_next(local, target, experiences) ==
    [i \in DOMAIN experiences.next_states |->
        forward(target, experiences.next_states[i])
            [next_action(local, target, experiences)[i]]]

\* the bootstrap target without the (1 - dones) factor
Q_targets_unmasked(rewards, gamma, q_next, dones) ==
    [i \in DOMAIN rewards |-> RAdd(rewards[i], RMul(gamma, q_next[i]))]

\* Q_targets = rewards + (gamma * Q_targets_next * (1 - dones))
Q_targets(rewards, gamma, q_next, dones) ==
    [i \in DOMAIN rewards |->
        RAdd(rewards[i], RMul(RMul(gamma, q_next[i]), RInt(1 - dones[i])))]

\* an optimiser built over the parameters of both networks
optimizer_step_both(local, target, stepped) ==
    [local |-> stepped, target |-> stepped]

\* loss.backward(); self.optimizer.step(): the optimiser holds the local
\* network's parameters only and gives them the values `stepped`
optimizer_step(local, target, stepped) ==
    [local |-> stepped, target |-> target]

\* soft_update with the two weights exchanged
soft_update_swapped(local, target, tau) ==
    [s \in StateVectors |-> [a \in Actions |->
        RAdd(RMul(tau, target[s][a]), RMul(RSub(RInt(1), tau), local[s][a]))]]

\* DDQN.soft_update: target <- tau * local + (1 - tau) * target
soft_update(local, target, tau) ==
    [s \in StateVectors |-> [a \in Actions |->
        RAdd(RMul(tau, local[s][a]), RMul(RSub(RInt(1), tau), target[s][a]))]]

\* DDQN.learn: the parameters it leaves behind.  The loss it computes from
\* Q_expected and Q_targets reaches the parameters only through the optimiser,
\* whose result is `stepped`; the soft update follows the optimiser's step.
learn(local, target, experiences, gamma, stepped) ==
    LET after == optimizer_step(local, target, stepped)
    IN  [local  |-> after.local,
         target |-> soft_update(after.local, after.target, TAU)]

\* ------------------------------------------------------------------------
(* DDQN: the agent *)

\* the parameters DDQN_QNetwork.__init__ gives a network for the seed the
\* agent is built with (torch.manual_seed(seed) fixes them)
InitialParams == (S0 :> Row(0, 1, 0, 1)) @@ (S1 :> Row(1, 0, 1, 0))

\* DDQN.__init__: both networks are built from the same seed, so they start
\* with the same parameters; the buffer's constructor draws once from the
\* generator seeded just before
Init ==
    /\ buffer_size = BUFFER_SIZE
    /\ batch_size = BATCH_SIZE
    /\ memory = <<>>
    /\ t_step = 0
    /\ qnetwork_local = InitialParams
    /\ qnetwork_target = InitialParams
    /\ rng = 1 % RngPeriod
    /\ added = <<>>
    /\ call = [op |-> "init"]
    /\ training = TRUE
    /\ files = NoFiles
    /\ run = NoRun

\* the guard of step with the size of the store left out
UpdateDue_counter_only(t, mem) == t = 0

\* if self.t_step == 0 and len(self.memory) > BATCH_SIZE
UpdateDue(t, mem) == t = 0 /\ Len(mem) > BATCH_SIZE

\* DDQN.step(state, action, reward, next_state, done)
step(e) ==
    /\ Len(added) < MaxSteps
    /\ added' = Append(added, e)
    /\ LET mem == add(memory, buffer_size, e)
           t   == (t_step + 1) % UPDATE_EVERY
       IN  /\ memory' = mem
           /\ t_step' = t
           /\ IF UpdateDue(t, mem)
              THEN \E out \in sample(mem, batch_size) :
                     /\ rng' = (rng + RandomDraws(out, batch_size)) % RngPeriod
                     /\ IF out.raised = "none"
                        THEN \E stepped \in Params :
                               LET r == learn(qnetwork_local, qnetwork_target,
                                              out.ret, GAMMA, stepped)
                               IN  /\ qnetwork_local' = r.local
                                   /\ qnetwork_target' = r.target
                                   /\ call' = [op |-> "step", sampled |-> TRUE,
                                               learned |-> TRUE,
                                               raised |-> "none"]
                        ELSE /\ call' = [op |-> "step", sampled |-> TRUE,
                                         learned |-> FALSE,
                                         raised |-> out.raised]
                             /\ UNCHANGED <<qnetwork_local, qnetwork_target>>
              ELSE /\ call' = [op |-> "step", sampled |-> FALSE,
                               learned |-> FALSE, raised |-> "none"]
                   /\ UNCHANGED <<qnetwork_local, qnetwork_target, rng>>
    /\ UNCHANGED <<buffer_size, batch_size, training, files>>

\* a call of step from outside a training run
Step(e) == step(e) /\ UNCHANGED run

Next == \E e \in Transitions : Step(e)

Spec == Init /\ [][Next]_vars

\* the exploration rates given to act, and the values random.random() may
\* return, which lie in [0, 1)
Epsilons == {<<0, 1>>, <<1, 2>>, <<1, 1>>}
Randoms == {<<0, 1>>, <<1, 2>>}

\* act without its closing self.qnetwork_local.train()
train_left_out(mode) == mode

\* nn.Module.eval() and nn.Module.train(): the mode they leave the network in
eval(mode) == FALSE
train(mode) == TRUE

\* DDQN.act(state, eps): r is the value random.random() returns, c the
\* action random.choice returns when it is called
act(s, eps, r, c) ==
    LET action_values == forward(qnetwork_local, s)
        greedy == RLt(eps, r)
    IN  /\ call' = [op |-> "act", state |-> s, eps |-> eps,
                    action |-> IF greedy THEN argmax(action_values) ELSE c,
                    explored |-> ~greedy,
                    draws |-> IF greedy THEN 1 ELSE 2]
        /\ rng' = (rng + (IF greedy THEN 1 ELSE 2)) % RngPeriod
        /\ training' = train(eval(training))
        /\ UNCHANGED <<buffer_size, batch_size, memory, t_step,
                       qnetwork_local, qnetwork_target, added, files>>

\* a call of act from outside a training run
Act(s, eps, r, c) == act(s, eps, r, c) /\ UNCHANGED run

\* an agent, whatever its parameters, before its first step or after one
\* step, and any calls of act
InitAct ==
    /\ buffer_size = BUFFER_SIZE
    /\ batch_size = BATCH_SIZE
    /\ memory \in {<<>>, <<T1>>}
    /\ t_step = Len(memory) % UPDATE_EVERY
    /\ qnetwork_local \in Params
    /\ qnetwork_target \in Params
    /\ rng = 1 % RngPeriod
    /\ added = memory
    /\ call = [op |-> "init"]
    /\ training = TRUE
    /\ files = NoFiles
    /\ run = NoRun

NextAct ==
    \E s \in StateVectors, eps \in Epsilons, r \in Randoms, c \in Actions :
        Act(s, eps, r, c)

SpecAct == InitAct /\ [][NextAct]_vars

\* ------------------------------------------------------------------------
(* learn called once on a batch sampled from a small store, for any pair of
   networks and any discount factor *)

Gammas == {<<0, 1>>, <<1, 2>>, <<99, 100>>, <<1, 1>>}

InitLearn ==
    /\ buffer_size = BUFFER_SIZE
    /\ batch_size = 2
    /\ memory \in [1 .. 2 -> {T1, T2, T3}]
    /\ t_step = 0
    /\ qnetwork_local \in Params
    /\ qnetwork_target \in Params
    /\ rng = 1 % RngPeriod
    /\ added = memory
    /\ call = [op |-> "init"]
    /\ training = TRUE
    /\ files = NoFiles
    /\ run = NoRun

\* experiences = self.memory.sample(); self.learn(experiences, gamma)
Learn(gamma, stepped) ==
    /\ call.op = "init"
    /\ \E out \in sample(memory, batch_size) :
          /\ out.raised = "none"
          /\ rng' = (rng + RandomDraws(out, batch_size)) % RngPeriod
          /\ LET q_next == Q_targets_next(qnetwork_local, qnetwork_target,
                                          out.ret)
                 r == learn(qnetwork_local, qnetwork_target, out.ret, gamma,
                            stepped)
             IN  /\ qnetwork_local' = r.local
                 /\ qnetwork_target' = r.target
                 /\ call' = [op |-> "learn",
                             local |-> qnetwork_local,
                             target |-> qnetwork_target,
                             idx |-> out.idx,
                             experiences |-> out.ret,
                             gamma |-> gamma,
                             Q_expected |-> Q_expected(qnetwork_local, out.ret),
                             Q_targets_next |-> q_next,
                             Q_targets |-> Q_targets(out.ret.rewards, gamma,
                                                     q_next, out.ret.dones)]
    /\ UNCHANGED <<buffer_size, batch_size, memory, t_step, added>>
    /\ UNCHANGED <<training, files, run>>

NextLearn == \E gamma \in Gammas, stepped \in Params : Learn(gamma, stepped)

SpecLearn == InitLearn /\ [][NextLearn]_vars

\* ------------------------------------------------------------------------
(* soft_update called on any pair of networks with any tau in [0, 1] *)

Taus == {<<0, 1>>, <<1, 2000>>, <<1, 2>>, <<3, 4>>, <<1, 1>>}

InitSoft ==
    /\ buffer_size = BUFFER_SIZE
    /\ batch_size = BATCH_SIZE
    /\ memory = <<>>
    /\ t_step = 0
    /\ qnetwork_local \in Params
    /\ qnetwork_target \in Params
    /\ rng = 1 % RngPeriod
    /\ added = <<>>
    /\ call = [op |-> "init"]
    /\ training = TRUE
    /\ files = NoFiles
    /\ run = NoRun

\* self.soft_update(self.qnetwork_local, self.qnetwork_target, tau)
SoftUpdate(tau) ==
    /\ \A s \in StateVectors, a \in Actions : qnetwork_target[s][a][2] <= MaxDen
    /\ qnetwork_target' = soft_update(qnetwork_local, qnetwork_target, tau)
    /\ call' = [op |-> "soft_update", tau |-> tau,
                local |-> qnetwork_local, target |-> qnetwork_target]
    /\ UNCHANGED <<buffer_size, batch_size, memory, t_step, qnetwork_local,
                   rng, added>>
    /\ UNCHANGED <<training, files, run>>

NextSoft == \E tau \in Taus : SoftUpdate(tau)

SpecSoft == InitSoft /\ [][NextSoft]_vars

\* ------------------------------------------------------------------------
(* run_ddqn, the training driver, called as train() calls it (the checkpoint
   goes to 'checkpoint.pth'), and the DDQN branch of inference().

   get_state and perform_action come from the module common, which is not
   among the sources: the state get_state returns is any element of
   StateVectors, and perform_action returns any element of
   perform_action_results, whatever its arguments.

   A run is either short (at most MaxRunSteps steps in all) or has LongRun
   episodes of no step (max_t = 0): lines 417-418 read only episode, eps,
   eps_end and eps_decay, so eps evolves in such a run as in any other. *)

RMax(x, y) == IF RLt(x, y) THEN y ELSE x

\* the loop guard of an episode with the done flag left out
loop_guard_without_done(done, max_t) == max_t < run.EPISODE_MAX_TIMESTEP

\* while not done and max_t < EPISODE_MAX_TIMESTEP
loop_guard(done, max_t) == ~done /\ max_t < run.EPISODE_MAX_TIMESTEP

\* the decay without its floor
decay_without_floor(eps_end, eps_decay, eps) == RMul(eps_decay, eps)

\* eps = max(eps_end, eps_decay * eps)
decay(eps_end, eps_decay, eps) == RMax(eps_end, RMul(eps_decay, eps))

\* if episode % 400 == 0
decay_due(episode) == episode % DECAY_EVERY = 0

\* the value of i after  for i, prb_value in enumerate(total_prbs)
enumerate_last(n, i) == IF n = 0 THEN i ELSE n - 1

\* agent.qnetwork_local.state_dict(): one named entry per parameter
state_dict(params) ==
    {<<s, a, params[s][a]>> : s \in StateVectors, a \in Actions}

\* load_state_dict into a fresh network: every parameter is looked up by name
load_state_dict(sd) ==
    [s \in StateVectors |->
        [a \in Actions |-> (CHOOSE t \in sd : t[1] = s /\ t[2] = a)[3]]]

\* what perform_action may return: the reward and the done flag
perform_action_results ==
    {[reward |-> 10, done |-> TRUE], [reward |-> -1, done |-> FALSE]}

\* eps_start, eps_end, eps_decay as train() passes them
TrainEps == <<<<1, 1>>, <<1, 100>>, <<99, 100>>>>

\* an eps low enough for act to choose greedily
LowEps == <<<<1, 4>>, <<1, 4>>, <<1, 1>>>>

\* eps_start, eps_end, eps_decay: those of train(), the defaults of run_ddqn,
\* and other values a caller may pass
EpsArgs ==
    {TrainEps,
     <<<<1, 1>>, <<1, 100>>, <<199, 200>>>>,
     <<<<1, 1>>, <<1, 2>>, <<1, 2>>>>,
     LowEps,
     <<<<1, 4>>, <<1, 1>>, <<1, 2>>>>,
     <<<<1, 1>>, <<1, 4>>, <<2, 1>>>>}

\* n_episodes, max_t and the eps arguments of a call: a short run with the
\* arguments of train() or a low eps, or a long run with any eps arguments
RunArgs ==
    {<<n, t, e>> \in (0 .. MaxEpisodes) \X (0 .. MaxT) \X {TrainEps, LowEps} :
        n * t <= MaxRunSteps}
      \cup {<<LongRun, 0, e>> : e \in EpsArgs}

\* a checkpoint of some earlier training, which may lie where inference looks
StaleParams == (S0 :> Row(0, 0, 0, 0)) @@ (S1 :> Row(0, 1, 0, 1))

\* the agent train() constructs; the file system before the run
InitRun ==
    /\ buffer_size = BUFFER_SIZE
    /\ batch_size = BATCH_SIZE
    /\ memory = <<>>
    /\ t_step = 0
    /\ qnetwork_local = InitialParams
    /\ qnetwork_target = InitialParams
    /\ rng = 1 % RngPeriod
    /\ added = <<>>
    /\ call = [op |-> "init"]
    /\ training = TRUE
    /\ files \in {NoFiles,
                  [NoFiles EXCEPT ![InferencePath] =
                                      Saved(state_dict(StaleParams))]}
    /\ run = NoRun

\* run_ddqn is called: lines 329-368, up to the first episode
RunDdqn(n_episodes, max_t, eps_start, eps_end, eps_decay, pth_file) ==
    /\ run.pc = "idle"
    /\ run' = [pc |-> "for",
               n_episodes |-> n_episodes,
               EPISODE_MAX_TIMESTEP |-> max_t,
               eps_start |-> eps_start,
               eps_end |-> eps_end,
               eps_decay |-> eps_decay,
               pth_file |-> pth_file,
               eps |-> eps_start,
               total |-> 0,
               correct |-> 0,
               episode |-> 0,
               done |-> FALSE,
               max_t |-> max_t,
               i |-> 0,
               state |-> S0,
               next_state |-> S0,
               action |-> 0,
               step_index |-> 0,     \* the i last passed to perform_action
               first |-> 0,          \* the step calls made before the episode
               eps_before |-> eps_start,  \* eps before its last decay
               decays |-> 0]         \* how many times eps was decayed
    /\ UNCHANGED <<buffer_size, batch_size, memory, t_step, qnetwork_local,
                   qnetwork_target, rng, added, call, training, files>>

\* for episode in range(1, n_episodes + 1): lines 370-385, the next episode
\* begins
ForEpisode(s) ==
    /\ run.pc = "for"
    /\ run.episode < run.n_episodes
    /\ run' = [run EXCEPT !.pc = "while",
                          !.episode = @ + 1,
                          !.done = FALSE,
                          !.max_t = 0,
                          !.i = 1,
                          !.next_state = s,
                          !.first = Len(added)]
    /\ UNCHANGED <<buffer_size, batch_size, memory, t_step, qnetwork_local,
                   qnetwork_target, rng, added, call, training, files>>

\* the loop body up to the choice of the action: lines 386-392
LoopAct(r, c) ==
    /\ run.pc = "while"
    /\ loop_guard(run.done, run.max_t)
    /\ act(run.next_state, run.eps, r, c)
    /\ run' = [run EXCEPT !.pc = "perform",
                          !.total = @ + 1,
                          !.state = run.next_state,
                          !.action = call'.action]

\* the rest of the loop body: lines 394-415
LoopStep(res, ns) ==
    LET i == enumerate_last(total_prbs_len, run.i)
    IN  /\ run.pc = "perform"
        /\ step(Experience(run.state, run.action, res.reward, ns, res.done))
        /\ run' = [run EXCEPT !.pc = "while",
                              !.step_index = i,
                              !.done = res.done,
                              !.correct = IF res.reward > 0 THEN @ + 1 ELSE @,
                              !.next_state = ns,
                              !.max_t = @ + 1,
                              !.i = i + 1]

\* the loop is left and the episode ends: lines 417-418
EndEpisode ==
    /\ run.pc = "while"
    /\ ~loop_guard(run.done, run.max_t)
    /\ run' = IF decay_due(run.episode)
              THEN [run EXCEPT !.pc = "for",
                               !.eps = decay(run.eps_end, run.eps_decay, @),
                               !.eps_before = run.eps,
                               !.decays = @ + 1]
              ELSE [run EXCEPT !.pc = "for"]
    /\ UNCHANGED <<buffer_size, batch_size, memory, t_step, qnetwork_local,
                   qnetwork_target, rng, added, call, training, files>>

\* after the last episode: torch.save and return, lines 456-460
Return ==
    /\ run.pc = "for"
    /\ run.episode = run.n_episodes
    /\ files' = [files EXCEPT
                   ![run.pth_file] = Saved(state_dict(qnetwork_local))]
    /\ run' = [run EXCEPT !.pc = "return"]
    /\ UNCHANGED <<buffer_size, batch_size, memory, t_step, qnetwork_local,
                   qnetwork_target, rng, added, call, training>>

\* train(), DDQN branch: the call of run_ddqn with pth_file='checkpoint.pth'
Train ==
    \E a \in RunArgs :
        RunDdqn(a[1], a[2], a[3][1], a[3][2], a[3][3], TrainPath)

\* inference(), DDQN branch, after a training: a fresh network is loaded from
\* "pth/DDQNcheckpoint.pth"; torch.load raises if there is no such file
Inference ==
    /\ run.pc = "return"
    /\ call.op # "inference"
    /\ call' = IF ~files[InferencePath].exists
               THEN [op |-> "inference", path |-> InferencePath,
                     raised |-> "FileNotFoundError"]
               ELSE [op |-> "inference", path |-> InferencePath,
                     raised |-> "none",
                     agent |-> load_state_dict(
                                  files[InferencePath].state_dict)]
    /\ UNCHANGED <<buffer_size, batch_size, memory, t_step, qnetwork_local,
                   qnetwork_target, rng, added, training, files, run>>

NextRun ==
    \/ Train
    \/ \E s \in StateVectors : ForEpisode(s)
    \/ \E r \in Randoms, c \in Actions : LoopAct(r, c)
    \/ \E res \in perform_action_results, ns \in StateVectors :
          LoopStep(res, ns)
    \/ EndEpisode
    \/ Return
    \/ Inference

SpecRun == InitRun /\ [][NextRun]_vars

\* ------------------------------------------------------------------------
(* The claims *)

Min(a, b) == IF a < b THEN a ELSE b

\* C1: in every state reached by calls of add on a fresh buffer of capacity
\* buffer_size, the buffer holds min(number of adds, buffer_size) records, and
\* they are the most recently added ones in insertion order
C1_Eviction ==
    LET n == Len(added)
        k == Min(n, buffer_size)
    IN  /\ Len(memory) = k
        /\ \A i \in 1 .. k : memory[i] = added[n - k + i]

\* a buffer that has evicted at least two records, its oldest kept record
\* differing from its newest
C1_Witness ==
    /\ Len(added) >= buffer_size + 2
    /\ Len(memory) = buffer_size
    /\ memory[1] # memory[Len(memory)]

\* C7: a call of sample on a store holding fewer than batch_size records
\* raises the insufficient-data error (random.sample's ValueError) and leaves
\* the store unchanged
C7_SampleFails ==
    [][(call'.op = "sample" /\ Len(memory) < batch_size)
          => (call'.out.raised = "ValueError" /\ memory' = memory)]_vars

\* sample has just failed on a store that is neither empty nor large enough
C7_Witness ==
    /\ call.op = "sample"
    /\ call.size = Len(memory)
    /\ 0 < Len(memory)
    /\ Len(memory) < batch_size
    /\ call.out.raised = "ValueError"

\* the batch of a successful sample: batch_size rows in each of the five
\* tensors, row i of every tensor taken from the stored record at idx[i], and
\* no position of the store used twice
BatchOf(out, mem, k) ==
    /\ out.raised = "none"
    /\ DOMAIN out.idx = 1 .. k
    /\ \A f \in {"states", "actions", "rewards", "next_states", "dones"} :
          DOMAIN out.ret[f] = 1 .. k
    /\ \A i \in 1 .. k :
          /\ out.idx[i] \in 1 .. Len(mem)
          /\ out.ret.states[i] = mem[out.idx[i]].state
          /\ out.ret.actions[i] = mem[out.idx[i]].action
          /\ out.ret.rewards[i] = RInt(mem[out.idx[i]].reward)
          /\ out.ret.next_states[i] = mem[out.idx[i]].next_state
          /\ out.ret.dones[i] = (IF mem[out.idx[i]].done THEN 1 ELSE 0)
    /\ \A i, j \in 1 .. k : i # j => out.idx[i] # out.idx[j]

\* C8: a call of sample on a store holding at least batch_size records
\* succeeds, returns batch_size rows that are distinct stored records, aligned
\* across the five tensors, and leaves the store unchanged
C8_SampleSucceeds ==
    [][(call'.op = "sample" /\ Len(memory) >= batch_size)
          => (BatchOf(call'.out, memory, batch_size) /\ memory' = memory)]_vars

\* sample has just returned a batch of at least two rows from a store that
\* holds more records than the batch, not all alike
C8_Witness ==
    /\ call.op = "sample"
    /\ call.out.raised = "none"
    /\ batch_size >= 2
    /\ Len(memory) > batch_size
    /\ call.out.ret.dones[1] # call.out.ret.dones[2]


\* C2: after every call of step no error has reached the caller, sample has
\* run only on a store of at least BATCH_SIZE records, and a learning update
\* has run only with the counter at zero and at least BATCH_SIZE records stored
C2_UpdateOnlyWhenDue ==
    call.op = "step" =>
        /\ call.raised = "none"
        /\ call.sampled => Len(memory) >= BATCH_SIZE
        /\ call.learned => (call.sampled /\ t_step = 0 /\ Len(memory) >= BATCH_SIZE)

\* a call of step has run a learning update: the counter is at zero and the
\* store holds more than BATCH_SIZE records
C2_Witness ==
    /\ call.op = "step"
    /\ call.learned
    /\ t_step = 0
    /\ Len(memory) > BATCH_SIZE

\* C3: every call of step at which the counter wraps to zero and the store,
\* the new transition included, holds at least BATCH_SIZE records performs a
\* learning update
C3_UpdateAtEveryDueWrap ==
    (call.op = "step" /\ t_step = 0 /\ Len(memory) >= BATCH_SIZE)
        => call.learned

\* C4: in learn, the value taken from the target network for every row of
\* the batch is the target network's value, on the row's next state, of the
\* action that is the argmax of the local network on that next state
C4_LocalSelectsTargetEvaluates ==
    call.op = "learn" =>
        \A i \in DOMAIN call.Q_targets_next :
            LET ns == memory[call.idx[i]].next_state
            IN  call.Q_targets_next[i] =
                    forward(call.target, ns)[argmax(forward(call.local, ns))]

\* learn has run on a row on whose next state the two networks prefer
\* different actions, to which the target network gives different values
C4_Witness ==
    /\ call.op = "learn"
    /\ \E i \in DOMAIN call.Q_targets_next :
          LET ns == memory[call.idx[i]].next_state
              al == argmax(forward(call.local, ns))
              at == argmax(forward(call.target, ns))
          IN  /\ al # at
              /\ forward(call.target, ns)[al] # forward(call.target, ns)[at]

\* C5: in learn, the bootstrap target of a row whose record has done = true
\* is the record's reward; that of a row whose record has done = false is
\* reward + gamma * Q_targets_next
C5_TerminalTargetIsReward ==
    call.op = "learn" =>
        \A i \in DOMAIN call.Q_targets :
            LET e == memory[call.idx[i]]
            IN  /\ e.done => call.Q_targets[i] = RInt(e.reward)
                /\ ~e.done => call.Q_targets[i] =
                       RAdd(RInt(e.reward),
                            RMul(call.gamma, call.Q_targets_next[i]))

\* learn has run on a batch holding a terminal record whose bootstrap term
\* would not have been zero, and a non-terminal record whose term is not zero
C5_Witness ==
    /\ call.op = "learn"
    /\ \E i, j \in DOMAIN call.Q_targets :
          /\ memory[call.idx[i]].done
          /\ RMul(call.gamma, call.Q_targets_next[i]) # RInt(0)
          /\ ~memory[call.idx[j]].done
          /\ call.Q_targets[j] # RInt(memory[call.idx[j]].reward)

\* C6: with eps = 0, act returns the first action of maximal local value, has
\* not chosen at random and has drawn nothing from the random source
C6_GreedyIsDeterministic ==
    (call.op = "act" /\ call.eps = <<0, 1>>) =>
        /\ call.action = argmax(forward(qnetwork_local, call.state))
        /\ ~call.explored
        /\ call.draws = 0

StrictlyBetween(x, a, b) ==
    \/ RLt(a, x) /\ RLt(x, b)
    \/ RLt(b, x) /\ RLt(x, a)

C10_TargetOnlySoftUpdated ==
    [][/\ qnetwork_target' # qnetwork_target
            => (call'.op = "step" /\ call'.learned)
       /\ (Len(added') > Len(added) /\ call'.learned)
            => qnetwork_target' =
                 soft_update(qnetwork_local', qnetwork_target, TAU)
       /\ (Len(added') > Len(added) /\ ~call'.learned)
            => (qnetwork_local' = qnetwork_local
                /\ qnetwork_target' = qnetwork_target)
       /\ optimizer_step(qnetwork_local, qnetwork_target,
                         qnetwork_local').target = qnetwork_target]_vars

\* a learning update has moved the local parameters away from those the
\* target started with, and the target parameters a little towards them
C10_Witness ==
    /\ call.op = "step"
    /\ call.learned
    /\ qnetwork_local # InitialParams
    /\ qnetwork_target # InitialParams
    /\ qnetwork_target # qnetwork_local

RLe(x, y) == ~RLt(y, x)

\* C12 as stated: throughout a run of run_ddqn, whatever eps_start, eps_end
\* and eps_decay it was given, eps is never larger than it was before its
\* last change and never below eps_end.
C12_EpsNeverIncreasesNorBelowEnd ==
    run.pc # "idle" => RLe(run.eps, run.eps_before) /\ RLe(run.eps_end, run.eps)

\* C12 amended: the same, for arguments with 0 <= eps_end <= eps_start and
\* 0 <= eps_decay <= 1.
C12_EpsNeverIncreasesNorBelowEndForValidArgs ==
    (/\ run.pc # "idle"
     /\ RLe(RInt(0), run.eps_end) /\ RLe(run.eps_end, run.eps_start)
     /\ RLe(RInt(0), run.eps_decay) /\ RLe(run.eps_decay, RInt(1)))
    => RLe(run.eps, run.eps_before) /\ RLe(run.eps_end, run.eps)

\* a run with such arguments has ended after two decays, the second of which
\* was stopped by the floor
C12_Witness ==
    /\ run.pc = "return"
    /\ RLe(RInt(0), run.eps_end) /\ RLe(run.eps_end, run.eps_start)
    /\ RLe(RInt(0), run.eps_decay) /\ RLe(run.eps_decay, RInt(1))
    /\ run.decays = 2
    /\ RLt(RMul(run.eps_decay, run.eps_before), run.eps_end)
    /\ run.eps = run.eps_end

\* C13: an episode makes at most max_t calls of agent.step; a step is begun
\* only while no step of the episode has returned done, and the transition
\* that returned done is the last one passed to agent.step; the episodes are
\* numbered up to n_episodes and the run returns after episode n_episodes, so
\* it makes at most n_episodes * max_t calls of agent.step.
C13_StepsAndEpisodesBounded ==
    run.pc # "idle" =>
        /\ Len(added) - run.first <= run.EPISODE_MAX_TIMESTEP
        /\ run.pc = "perform" =>
               ~run.done /\ Len(added) - run.first < run.EPISODE_MAX_TIMESTEP
        /\ (run.pc = "while" /\ Len(added) > run.first) =>
               added[Len(added)].done = run.done
        /\ run.episode <= run.n_episodes
        /\ run.pc = "return" => run.episode = run.n_episodes
        /\ Len(added) <= run.n_episodes * run.EPISODE_MAX_TIMESTEP

\* a run of one episode of at most two steps has returned after a single
\* step, the one that returned done
C13_Witness ==
    /\ run.pc = "return"
    /\ run.n_episodes = 1
    /\ run.EPISODE_MAX_TIMESTEP = 2
    /\ Len(added) = 1
    /\ added[1].done

\* C16: eps is decayed at the end of the episodes whose number is a multiple
\* of 500 and of no other, so that after n complete episodes it has been
\* decayed n \div 500 times.
C16_DecayedEvery500Episodes ==
    run.pc = "for" => run.decays = run.episode \div 500

\* C17: when the k-th step of an episode is done, the step index that was
\* passed to perform_action in it is k.
C17_StepIndexIsStepNumber ==
    (run.pc = "while" /\ Len(added) > run.first) =>
        run.step_index = Len(added) - run.first

\* C15: when inference follows a training run, it loads without error, from
\* the location the run saved to, the parameters of the trained local
\* network, so that the loaded network gives the same action values.
C15_CheckpointRoundTrip ==
    call.op = "inference" =>
        /\ call.raised = "none"
        /\ call.path = run.pth_file
        /\ call.agent = qnetwork_local
        /\ \A s \in StateVectors :
               forward(call.agent, s) = forward(qnetwork_local, s)

\* C14: a transition whose state or next_state has not state_size entries is
\* refused by add, so that every stored record has vectors of state_size
\* entries.
C14_MalformedNeverStored ==
    \A i \in 1 .. Len(memory) :
        /\ Len(memory[i].state) = state_size
        /\ Len(memory[i].next_state) = state_size

====
